---- MODULE Spec2Model ----
(***************************************************************************)
(* Model of the structural validator of the API test suite                 *)
(* (src/src/schemas/response-schemas.ts): validateAgainstSchema and its    *)
(* helper validateProperty, applied to JSON values and schema trees.       *)
(*                                                                         *)
(* A JSON value is a record                                                *)
(*   [kind, twice, fields, elems]                                          *)
(* kind   : "string" | "number" | "boolean" | "null" | "array" | "object"  *)
(* twice  : for a number, two times its value (2 is 1, 3 is 1.5), so that  *)
(*          Number.isInteger is computed and not stored                    *)
(* fields : for an object, its own properties in insertion order, each     *)
(*          [key, value]                                                   *)
(* elems  : for an array, its elements                                     *)
(*                                                                         *)
(* A schema node is a record [type, required, properties, items]:          *)
(* required is the list of required names, properties the entries of the   *)
(* properties object in insertion order, each [key, schema], items a       *)
(* sequence holding the element schema when one is declared.  An absent    *)
(* required / properties member is the empty sequence: the code skips an   *)
(* absent member and loops zero times over an empty one.                   *)
(***************************************************************************)
EXTENDS Naturals, Integers, Sequences, FiniteSets, TLC

\* the validator call, and the calls made so far on a shared schema
VARIABLES response, schema, result, pc, validations

\* the API client: its instances, the calls of makeRequest, the console, the
\* DEBUG_API environment entry and the last assertion made
VARIABLES clients, calls, log, DEBUG_API, asserted

\* the Slack reporter: the reporter object, the progress of the run and of
\* its notifications, the posts the webhook received, the handlers an error
\* escaped from
VARIABLES reporter, rpc, webhook, escaped

validatorVars == <<response, schema, result, pc, validations>>

reporterVars == <<reporter, rpc, webhook, escaped>>

clientVars == <<clients, calls, log, DEBUG_API, asserted>>

vars ==
  <<response, schema, result, pc, validations, clients, calls, log, DEBUG_API, asserted,
    reporter, rpc, webhook, escaped>>

\* Longest array drawn as an input.
MaxElems == 1

(***************************************************************************)
(* JSON values                                                             *)
(***************************************************************************)
Str == [kind |-> "string", twice |-> 0, fields |-> <<>>, elems |-> <<>>]

Num(t) == [kind |-> "number", twice |-> t, fields |-> <<>>, elems |-> <<>>]

Bool == [kind |-> "boolean", twice |-> 0, fields |-> <<>>, elems |-> <<>>]

Null == [kind |-> "null", twice |-> 0, fields |-> <<>>, elems |-> <<>>]

Arr(es) == [kind |-> "array", twice |-> 0, fields |-> <<>>, elems |-> es]

Obj(fs) == [kind |-> "object", twice |-> 0, fields |-> fs, elems |-> <<>>]

Field(k, v) == [key |-> k, value |-> v]

SeqsUpTo(S, n) == UNION {[1..k -> S] : k \in 0..n}

\* "x", 1, 1.5, true, null
PrimValues == {Str, Num(2), Num(3), Bool, Null}

\* objects as found under weight: { }, { metric: <primitive> }
NestedObjects == {Obj(<<>>)} \cup {Obj(<<Field("metric", v)>>) : v \in PrimValues}

ElemValues == {Str, Num(3), Obj(<<Field("metric", Str)>>)}

Arrays == {Arr(es) : es \in SeqsUpTo(ElemValues, MaxElems)}

PropValues == PrimValues \cup Arrays \cup NestedObjects

\* objects with an optional "id" of any shape and an optional primitive "name"
TopObjects ==
  {Obj(<<>>)}
    \cup {Obj(<<Field("id", v)>>) : v \in PropValues}
    \cup {Obj(<<Field("name", w)>>) : w \in PrimValues}
    \cup {Obj(<<Field("id", v), Field("name", w)>>) : v \in PropValues, w \in PrimValues}

Values == PrimValues \cup Arrays \cup TopObjects

(***************************************************************************)
(* Schema trees                                                            *)
(***************************************************************************)
Node(t, req, props, its) ==
  [type |-> t, required |-> req, properties |-> props, items |-> its]

Prop(k, s) == [key |-> k, schema |-> s]

PrimTags == {"string", "integer", "number", "boolean"}

PrimSchemas == {Node(t, <<>>, <<>>, <<>>) : t \in PrimTags}

\* { type: 'object', properties: { metric: ... }, required: [...] }
NestedObjectSchemas ==
  {Node("object", req, props, <<>>) :
     req \in {<<>>, <<"metric">>},
     props \in {<<>>, <<Prop("metric", Node("string", <<>>, <<>>, <<>>))>>,
                <<Prop("metric", Node("integer", <<>>, <<>>, <<>>))>>}}

\* { type: 'array' } and { type: 'array', items: ... }
ArraySchemas ==
  {Node("array", <<>>, <<>>, its) :
     its \in {<<>>, <<Node("string", <<>>, <<>>, <<>>)>>,
              <<Node("integer", <<>>, <<>>, <<>>)>>,
              <<Node("object", <<"metric">>,
                     <<Prop("metric", Node("string", <<>>, <<>>, <<>>))>>, <<>>)>>}}

PropSchemas == PrimSchemas \cup ArraySchemas \cup NestedObjectSchemas

\* the required lists over "id" and "name", duplicate-free, in either order
RequiredLists == {<<>>, <<"id">>, <<"name">>, <<"id", "name">>, <<"name", "id">>}

PropertyLists ==
  {<<>>}
    \cup {<<Prop("id", s)>> : s \in PropSchemas}
    \cup {<<Prop("name", p)>> : p \in PrimSchemas}
    \cup {<<Prop("id", s), Prop("name", p)>> : s \in PropSchemas, p \in PrimSchemas}
    \cup {<<Prop("name", p), Prop("id", s)>> : s \in PropSchemas, p \in PrimSchemas}

ObjectSchemas ==
  {Node("object", req, props, <<>>) : req \in RequiredLists, props \in PropertyLists}

Schemas == ObjectSchemas \cup ArraySchemas \cup PrimSchemas

(***************************************************************************)
(* The language primitives the validator uses                              *)
(***************************************************************************)
\* typeof value
TypeOf(value) ==
  CASE value.kind = "string" -> "string"
    [] value.kind = "number" -> "number"
    [] value.kind = "boolean" -> "boolean"
    [] OTHER -> "object"

\* Array.isArray(value)
ArrayIsArray(value) == value.kind = "array"

\* typeof value === 'number' in place of Number.isInteger(value)
NumberIsIntegerTypeofNumber(value) == value.kind = "number"

\* Number.isInteger(value)
NumberIsInteger(value) == value.kind = "number" /\ value.twice % 2 = 0

\* key in response, for a response that is an object
In(key, obj) == \E i \in 1..Len(obj.fields) : obj.fields[i].key = key

\* key in response raises a TypeError when response is null
InThrows(obj) == obj.kind = "null"

\* response[key], for a key that is present
Get(obj, key) ==
  obj.fields[CHOOSE i \in 1..Len(obj.fields) : obj.fields[i].key = key].value

(***************************************************************************)
(* Error messages                                                          *)
(***************************************************************************)
\* `Expected ${declared} but got ${actual}`
ExpectedMsg(declared, actual) ==
  [text |-> "Expected", expected |-> declared, got |-> actual, field |-> ""]

\* `Missing required field: ${field}`
MissingMsg(f) ==
  [text |-> "Missing required field", expected |-> "", got |-> "", field |-> f]

(***************************************************************************)
(* validateProperty                                                        *)
(***************************************************************************)
\* the integer branch testing typeof value !== 'integer', which no value passes
validatePropertyTypeofInteger(value, propSchema) ==
  IF propSchema.type = "string" /\ TypeOf(value) # "string"
    THEN <<ExpectedMsg("string", TypeOf(value))>>
  ELSE IF propSchema.type = "integer" /\ TypeOf(value) # "integer"
    THEN <<ExpectedMsg("integer", TypeOf(value))>>
  ELSE IF propSchema.type = "number" /\ TypeOf(value) # "number"
    THEN <<ExpectedMsg("number", TypeOf(value))>>
  ELSE IF propSchema.type = "array" /\ ~ArrayIsArray(value)
    THEN <<ExpectedMsg("array", TypeOf(value))>>
  ELSE <<>>

validateProperty(value, propSchema) ==
  IF propSchema.type = "string" /\ TypeOf(value) # "string"
    THEN <<ExpectedMsg("string", TypeOf(value))>>
  ELSE IF propSchema.type = "integer" /\ ~NumberIsInteger(value)
    THEN <<ExpectedMsg("integer", TypeOf(value))>>
  ELSE IF propSchema.type = "number" /\ TypeOf(value) # "number"
    THEN <<ExpectedMsg("number", TypeOf(value))>>
  ELSE IF propSchema.type = "array" /\ ~ArrayIsArray(value)
    THEN <<ExpectedMsg("array", TypeOf(value))>>
  ELSE <<>>

(***************************************************************************)
(* validateAgainstSchema                                                   *)
(***************************************************************************)
\* the loop over schema.required leaving at the first missing field
RECURSIVE RequiredErrorsBreak(_, _, _)
RequiredErrorsBreak(resp, required, i) ==
  IF i > Len(required) THEN <<>>
  ELSE IF ~In(required[i], resp) THEN <<MissingMsg(required[i])>>
  ELSE RequiredErrorsBreak(resp, required, i + 1)

\* the loop over schema.required
RECURSIVE RequiredErrors(_, _, _)
RequiredErrors(resp, required, i) ==
  IF i > Len(required) THEN <<>>
  ELSE (IF ~In(required[i], resp) THEN <<MissingMsg(required[i])>> ELSE <<>>)
         \o RequiredErrors(resp, required, i + 1)

\* the loop over Object.entries(schema.properties)
RECURSIVE PropertyErrors(_, _, _)
PropertyErrors(resp, properties, i) ==
  IF i > Len(properties) THEN <<>>
  ELSE (IF In(properties[i].key, resp)
          THEN validateProperty(Get(resp, properties[i].key), properties[i].schema)
          ELSE <<>>)
         \o PropertyErrors(resp, properties, i + 1)

\* the errors array kept at module level: each call adds to the errors of
\* the call before it
ReturnedWithEarlierErrors(v, es) ==
  [outcome |-> "return", valid |-> v /\ Len(result.errors) = 0, errors |-> result.errors \o es]

Returned(v, es) == [outcome |-> "return", valid |-> v, errors |-> es]

\* an exception leaves the function: no result record exists
Thrown == [outcome |-> "TypeError", valid |-> FALSE, errors |-> <<>>]

\* the final return answering valid: true whatever was collected
validateAgainstSchemaValidTrue(resp, sch) ==
  IF sch.type = "object"
    THEN IF TypeOf(resp) # "object" \/ ArrayIsArray(resp)
           THEN Returned(FALSE, <<ExpectedMsg("object", TypeOf(resp))>>)
         ELSE IF InThrows(resp) /\ (Len(sch.required) > 0 \/ Len(sch.properties) > 0)
           THEN Thrown
         ELSE LET errors == RequiredErrors(resp, sch.required, 1)
                              \o PropertyErrors(resp, sch.properties, 1)
              IN Returned(TRUE, errors)
    ELSE Returned(TRUE, <<>>)

validateAgainstSchema(resp, sch) ==
  IF sch.type = "object"
    THEN IF TypeOf(resp) # "object" \/ ArrayIsArray(resp)
           THEN Returned(FALSE, <<ExpectedMsg("object", TypeOf(resp))>>)
         ELSE IF InThrows(resp) /\ (Len(sch.required) > 0 \/ Len(sch.properties) > 0)
           THEN Thrown
         ELSE LET errors == RequiredErrors(resp, sch.required, 1)
                              \o PropertyErrors(resp, sch.properties, 1)
              IN Returned(Len(errors) = 0, errors)
    ELSE Returned(TRUE, <<>>)

(***************************************************************************)
(* The state machine: one call of the validator on drawn inputs            *)
(***************************************************************************)
NoResult == [outcome |-> "none", valid |-> FALSE, errors |-> <<>>]

\* no client exists and no request is made
ClientUnused ==
  /\ clients = <<>>
  /\ calls = <<>>
  /\ log = <<>>
  /\ DEBUG_API = ""
  /\ asserted = <<>>

\* no reporter is loaded
ReporterUnused ==
  /\ reporter = <<>>
  /\ rpc = <<>>
  /\ webhook = <<>>
  /\ escaped = {}

Init ==
  /\ response \in Values
  /\ schema \in Schemas
  /\ result = NoResult
  /\ pc = "call"
  /\ validations = <<>>
  /\ ClientUnused
  /\ ReporterUnused

Validate ==
  /\ pc = "call"
  /\ result' = validateAgainstSchema(response, schema)
  /\ pc' = "done"
  /\ UNCHANGED <<response, schema, validations>>
  /\ UNCHANGED clientVars
  /\ UNCHANGED reporterVars

Next == Validate

Spec == Init /\ [][Next]_vars

(***************************************************************************)
(* Vocabulary of the properties                                            *)
(***************************************************************************)
Present(v, f) == \E i \in DOMAIN v.fields : v.fields[i].key = f

ValueOf(v, f) == v.fields[CHOOSE i \in DOMAIN v.fields : v.fields[i].key = f].value

\* the value is of the kind the primitive tag declares
KindMatches(v, tag) ==
  CASE tag = "string" -> v.kind = "string"
    [] tag = "integer" -> v.kind = "number" /\ v.twice % 2 = 0
    [] tag = "number" -> v.kind = "number"
    [] tag = "boolean" -> v.kind = "boolean"
    [] OTHER -> FALSE

\* the value conforms to the schema tree, nested objects and elements included
RECURSIVE Satisfies(_, _)
Satisfies(v, s) ==
  IF s.type \in PrimTags THEN KindMatches(v, s.type)
  ELSE IF s.type = "array"
    THEN /\ v.kind = "array"
         /\ \A its \in {s.items} : Len(its) = 0 \/
              \A k \in DOMAIN v.elems : Satisfies(v.elems[k], its[1])
  ELSE /\ v.kind = "object"
       /\ \A k \in DOMAIN s.required : Present(v, s.required[k])
       /\ \A k \in DOMAIN s.properties :
            Present(v, s.properties[k].key) =>
              Satisfies(ValueOf(v, s.properties[k].key), s.properties[k].schema)

\* the declared properties of tag t that are present with a value of another kind
WrongKind(t) ==
  {i \in DOMAIN schema.properties :
     /\ schema.properties[i].schema.type = t
     /\ Present(response, schema.properties[i].key)
     /\ ~KindMatches(ValueOf(response, schema.properties[i].key), t)}

\* the positions of the type-mismatch errors naming tag t
ExpectedErrors(t) ==
  {j \in DOMAIN result.errors :
     result.errors[j].text = "Expected" /\ result.errors[j].expected = t}

\* the required names absent from the value, in the order of the required list
MissingFields == SelectSeq(schema.required, LAMBDA f : ~Present(response, f))

\* a call on an object schema and an object value has ended
ObjectCase == pc = "done" /\ schema.type = "object" /\ response.kind = "object"

(***************************************************************************)
(* C1: on an object schema and an object value the number of type-mismatch *)
(* errors naming a primitive tag equals the number of declared properties  *)
(* that are present with a value of the wrong primitive kind.              *)
(***************************************************************************)
C1_MismatchCount ==
  ObjectCase =>
    /\ result.outcome = "return"
    /\ Cardinality(UNION {ExpectedErrors(t) : t \in PrimTags})
         = Cardinality(UNION {WrongKind(t) : t \in PrimTags})

(***************************************************************************)
(* C2: an object value lacking required fields is invalid, each missing    *)
(* field has exactly one "Missing required field" message, and these       *)
(* messages come first, in the order of the required list.                 *)
(***************************************************************************)
C2_MissingRequired ==
  ObjectCase =>
    /\ result.outcome = "return"
    /\ Len(MissingFields) > 0 => result.valid = FALSE
    /\ \A k \in DOMAIN MissingFields :
         Cardinality({j \in DOMAIN result.errors :
                        result.errors[j] = MissingMsg(MissingFields[k])}) = 1
    /\ Len(result.errors) >= Len(MissingFields)
    /\ \A j \in DOMAIN result.errors :
         IF j <= Len(MissingFields)
           THEN result.errors[j] = MissingMsg(MissingFields[j])
           ELSE result.errors[j].text = "Expected"

\* a required list of two names, the second one missing, and a mismatch after it
C2_Witness ==
  /\ ObjectCase
  /\ Len(schema.required) = 2
  /\ Len(MissingFields) = 1
  /\ MissingFields[1] = schema.required[2]
  /\ Len(result.errors) = 2
  /\ result.errors[2].text = "Expected"

(***************************************************************************)
(* C3: a present property whose schema is an object schema is validated    *)
(* against that child schema, and every error of that validation is in     *)
(* the top-level error list.                                               *)
(***************************************************************************)
C3_NestedObjects ==
  ObjectCase =>
    \A i \in DOMAIN schema.properties :
      (/\ schema.properties[i].schema.type = "object"
       /\ Present(response, schema.properties[i].key)) =>
        \A child \in {validateAgainstSchema(ValueOf(response, schema.properties[i].key),
                                            schema.properties[i].schema)} :
          /\ result.outcome = "return"
          /\ child.outcome = "return"
          /\ \A k \in DOMAIN child.errors :
               \E j \in DOMAIN result.errors : result.errors[j] = child.errors[k]

(***************************************************************************)
(* C4: an array schema fails with exactly one error on a non-array value   *)
(* and validates every element against its items schema, as the top-level  *)
(* schema and as the schema of a property.                                 *)
(***************************************************************************)
C4_Arrays ==
  /\ (pc = "done" /\ schema.type = "array" /\ response.kind # "array") =>
       result.valid = FALSE /\ Len(result.errors) = 1
  /\ (pc = "done" /\ schema.type = "array" /\ response.kind = "array") =>
       (result.valid <=> Satisfies(response, schema))
  /\ ObjectCase =>
       \A i \in DOMAIN schema.properties :
         (/\ schema.properties[i].schema.type = "array"
          /\ Present(response, schema.properties[i].key)) =>
           \A v \in {ValueOf(response, schema.properties[i].key)} :
             /\ v.kind # "array" => Cardinality(ExpectedErrors("array")) = 1
             /\ (v.kind = "array" /\ ~Satisfies(v, schema.properties[i].schema)) =>
                  result.valid = FALSE

(***************************************************************************)
(* C5: on an object schema, a string, number, boolean, null or array value *)
(* makes the call return normally with valid = false and one error.        *)
(***************************************************************************)
C5_NotAnObject ==
  (pc = "done" /\ schema.type = "object" /\ response.kind # "object") =>
    /\ result.outcome = "return"
    /\ result.valid = FALSE
    /\ Len(result.errors) = 1

(***************************************************************************)
(* C6: for each of the tags string, integer, number and boolean, every     *)
(* present property of another kind has one "Expected <tag>" error and a   *)
(* property of the declared kind has none.                                 *)
(***************************************************************************)
C6_PrimitiveTags ==
  ObjectCase =>
    \A t \in PrimTags : Cardinality(ExpectedErrors(t)) = Cardinality(WrongKind(t))

(***************************************************************************)
(* C7: an integer property is accepted only for a whole number, with one   *)
(* "Expected integer" error otherwise; a number property accepts every     *)
(* number, whole or not.                                                   *)
(***************************************************************************)
C7_IntegerIsWhole ==
  ObjectCase =>
    /\ Cardinality(ExpectedErrors("integer")) =
         Cardinality({i \in DOMAIN schema.properties :
            /\ schema.properties[i].schema.type = "integer"
            /\ Present(response, schema.properties[i].key)
            /\ \A v \in {ValueOf(response, schema.properties[i].key)} :
                 ~(v.kind = "number" /\ v.twice % 2 = 0)})
    /\ Cardinality(ExpectedErrors("number")) =
         Cardinality({i \in DOMAIN schema.properties :
            /\ schema.properties[i].schema.type = "number"
            /\ Present(response, schema.properties[i].key)
            /\ ValueOf(response, schema.properties[i].key).kind # "number"})

\* an integer property holding 1.5 was refused
C7_Witness ==
  /\ ObjectCase
  /\ \E i \in DOMAIN schema.properties :
       /\ schema.properties[i].schema.type = "integer"
       /\ Present(response, schema.properties[i].key)
       /\ ValueOf(response, schema.properties[i].key) = Num(3)
  /\ result.errors = <<ExpectedMsg("integer", "number")>>

(***************************************************************************)
(* C8: a type-mismatch error about an array value names its kind as        *)
(* "array", never "object".                                                *)
(***************************************************************************)
C8_ArrayKind ==
  /\ (pc = "done" /\ schema.type = "object" /\ response.kind = "array") =>
       \A j \in DOMAIN result.errors : result.errors[j].got = "array"
  /\ ObjectCase =>
       \A i \in DOMAIN schema.properties :
         (/\ schema.properties[i].schema.type \in {"string", "integer", "number"}
          /\ Present(response, schema.properties[i].key)
          /\ ValueOf(response, schema.properties[i].key).kind = "array") =>
           \E j \in DOMAIN result.errors :
             result.errors[j] = ExpectedMsg(schema.properties[i].schema.type, "array")

(***************************************************************************)
(* C9: every returned result has valid = true exactly when its error list  *)
(* is empty.                                                               *)
(***************************************************************************)
C9_ValidIffNoErrors ==
  (pc = "done" /\ result.outcome = "return") =>
    (result.valid <=> Len(result.errors) = 0)

\* the final return was taken with errors collected
C9_Witness ==
  /\ ObjectCase
  /\ result.outcome = "return"
  /\ Len(result.errors) = 2
  /\ result.valid = FALSE

(***************************************************************************)
(* C10: an object value that has every required field and whose declared   *)
(* properties all satisfy their schemas is valid, with no error.           *)
(***************************************************************************)
C10_ConformingIsValid ==
  (ObjectCase /\ Satisfies(response, schema)) =>
    /\ result.outcome = "return"
    /\ result.valid = TRUE
    /\ result.errors = <<>>

\* a conforming value with two required fields and an integer property
C10_Witness ==
  /\ ObjectCase
  /\ Satisfies(response, schema)
  /\ Len(schema.required) = 2
  /\ Len(schema.properties) = 2
  /\ \E i \in DOMAIN schema.properties : schema.properties[i].schema.type = "integer"
  /\ result.valid = TRUE

(***************************************************************************)
(* The API client (src/src/utils/api-client.ts)                            *)
(*                                                                         *)
(* A script value is a record [t, n, s]: t its typeof ("undefined",        *)
(* "null", "number", "string"), n the number, s the string.  An object     *)
(* (params, data) is [defined, entries]: entries are its own properties in *)
(* insertion order, each [key, value]; defined is FALSE for undefined.     *)
(***************************************************************************)
Undefined == [t |-> "undefined", n |-> 0, s |-> ""]

JsNull == [t |-> "null", n |-> 0, s |-> ""]

JsNumber(k) == [t |-> "number", n |-> k, s |-> ""]

JsString(str) == [t |-> "string", n |-> 0, s |-> str]

Entry(k, v) == [key |-> k, value |-> v]

NoObject == [defined |-> FALSE, entries |-> <<>>]

Object(es) == [defined |-> TRUE, entries |-> es]

\* String(value)
String(value) ==
  CASE value.t = "number" -> ToString(value.n)
    [] value.t = "string" -> value.s
    [] value.t = "null" -> "null"
    [] OTHER -> "undefined"

\* the truthiness of a script value, as in `if (apiKey)` and `apiKey || ...`
Truthy(value) ==
  \/ value.t = "string" /\ value.s # ""
  \/ value.t = "number" /\ value.n # 0

\* API_CONFIG; a headers object is the sequence of its entries
API_CONFIG ==
  [baseURL |-> "https://api.thecatapi.com/v1",
   apiKey |-> "DEMO-API-KEY",
   headers |-> <<Entry("Content-Type", "application/json"),
                 Entry("Accept", "application/json")>>]

\* key in object
Has(entries, k) == \E i \in 1..Len(entries) : entries[i].key = k

\* object[key], for a key that is present
Lookup(entries, k) == entries[CHOOSE i \in 1..Len(entries) : entries[i].key = k].value

\* { ...b, ...a }: the entries of b win over those of a
SpreadReversed(a, b) ==
  [i \in 1..Len(b) |-> IF Has(a, b[i].key) THEN Entry(b[i].key, Lookup(a, b[i].key)) ELSE b[i]]
    \o SelectSeq(a, LAMBDA e : ~Has(b, e.key))

\* { ...a, ...b }: the keys of a keep their place and take the value b gives
\* them, the other keys of b follow
Spread(a, b) ==
  [i \in 1..Len(a) |-> IF Has(b, a[i].key) THEN Entry(a[i].key, Lookup(b, a[i].key)) ELSE a[i]]
    \o SelectSeq(b, LAMBDA e : ~Has(a, e.key))

\* new APIClient(request, apiKey)
APIClient(apiKey) ==
  [baseURL |-> API_CONFIG.baseURL,
   apiKey |-> IF Truthy(apiKey) THEN apiKey.s ELSE API_CONFIG.apiKey,
   defaultHeaders |->
     Spread(API_CONFIG.headers,
            <<Entry("x-api-key", IF Truthy(apiKey) THEN apiKey.s ELSE API_CONFIG.apiKey)>>)]

\* the forEach of buildUrl testing value !== undefined only
RECURSIVE AppendParamsKeepNull(_, _)
AppendParamsKeepNull(entries, i) ==
  IF i > Len(entries) THEN <<>>
  ELSE (IF entries[i].value.t # "undefined"
          THEN <<Entry(entries[i].key, String(entries[i].value))>>
          ELSE <<>>)
         \o AppendParamsKeepNull(entries, i + 1)

\* the forEach of buildUrl: queryParams.append(key, String(value)) for the
\* values that are neither undefined nor null
RECURSIVE AppendParams(_, _)
AppendParams(entries, i) ==
  IF i > Len(entries) THEN <<>>
  ELSE (IF entries[i].value.t # "undefined" /\ entries[i].value.t # "null"
          THEN <<Entry(entries[i].key, String(entries[i].value))>>
          ELSE <<>>)
         \o AppendParams(entries, i + 1)

\* buildUrl: the URL is `${baseUrl}?${queryString}` when the query string is not
\* empty and baseUrl otherwise; search holds the key=value pairs joined by &
buildUrl(self, endpoint, params, apiKey) ==
  LET queryParams ==
        (IF Truthy(apiKey) THEN <<Entry("api_key", String(apiKey))>> ELSE <<>>)
          \o (IF params.defined THEN AppendParams(params.entries, 1) ELSE <<>>)
  IN [baseUrl |-> <<self.baseURL, endpoint>>,
      questionMark |-> Len(queryParams) > 0,
      search |-> queryParams]

\* the text of one scalar in JSON
JsonScalar(value) ==
  CASE value.t = "number" -> ToString(value.n)
    [] value.t = "string" -> ToString(value.s)
    [] OTHER -> "null"

\* JSON.stringify(data) of a flat object, as the sequence of its tokens; a
\* property whose value is undefined is left out
RECURSIVE JsonMembers(_, _, _)
JsonMembers(entries, i, first) ==
  IF i > Len(entries) THEN <<>>
  ELSE IF entries[i].value.t = "undefined" THEN JsonMembers(entries, i + 1, first)
  ELSE (IF first THEN <<>> ELSE <<",">>)
         \o <<ToString(entries[i].key), ":", JsonScalar(entries[i].value)>>
         \o JsonMembers(entries, i + 1, FALSE)

JSONstringify(data) == <<"{">> \o JsonMembers(data.entries, 1, TRUE) \o <<"}">>

NoBody == [present |-> FALSE, text |-> <<>>]

\* data: data ? JSON.stringify(data) : undefined
RequestData(method, data) ==
  IF data.defined THEN [present |-> TRUE, text |-> JSONstringify(data)] ELSE NoBody

\* headers: { ...this.defaultHeaders, ...headers }
RequestHeaders(self, headers) == Spread(self.defaultHeaders, headers)

(***************************************************************************)
(* The transport (this.request.fetch) and its responses                    *)
(*                                                                         *)
(* A response is [status, statusText, headers, text]: headers the sequence *)
(* of its entries, a content-type value being the sequence of its          *)
(* ;-separated parts, and text the document served for the requested       *)
(* endpoint, [content, wellFormed], wellFormed telling whether it is JSON. *)
(***************************************************************************)
Statuses == {200, 299, 300, 404, 500}

StatusText(status) ==
  CASE status = 200 -> "OK"
    [] status = 404 -> "Not Found"
    [] status = 500 -> "Internal Server Error"
    [] OTHER -> ""

ContentTypes ==
  {<<Entry("content-type", <<"application/json", "charset=utf-8">>)>>,
   <<Entry("content-type", <<"text/html">>)>>,
   <<>>}

\* the responses the transport can give to a request
Responses(request) ==
  {[status |-> st, statusText |-> StatusText(st), headers |-> h,
    text |-> [content |-> request.url.baseUrl[2], wellFormed |-> wf]] :
     st \in Statuses, h \in ContentTypes, wf \in BOOLEAN}

\* the errors fetch rejects with: connection refused, timeout
TransportErrors ==
  {[name |-> "Error", message |-> "connect ECONNREFUSED", cause |-> <<>>],
   [name |-> "TimeoutError", message |-> "Request timed out after 30000ms", cause |-> <<>>]}

\* response.ok() of the transport: status in 200..299
ResponseOk(resp) == resp.status >= 200 /\ resp.status <= 299

\* contentType.includes('application/json')
Includes(contentType, part) == \E i \in 1..Len(contentType) : contentType[i] = part

\* the body response.json() resolves with
JsonBody(text) == [kind |-> "json", value |-> text.content]

\* ({})
EmptyObject == [kind |-> "json", value |-> "{}"]

\* the body response.text() resolves with
TextBody(text) == [kind |-> "text", value |-> text.content]

Resolved(b) == [rejected |-> FALSE, body |-> b, error |-> <<>>]

Rejected(e) == [rejected |-> TRUE, body |-> EmptyObject, error |-> <<e>>]

SyntaxError == [name |-> "SyntaxError", message |-> "Unexpected token", cause |-> <<>>]

\* parseResponseBody without the .catch(() => ({})) on response.json()
parseResponseBodyNoCatch(resp) ==
  LET contentType == IF Has(resp.headers, "content-type")
                       THEN Lookup(resp.headers, "content-type") ELSE <<>>
  IN IF Includes(contentType, "application/json")
       THEN IF resp.text.wellFormed THEN Resolved(JsonBody(resp.text))
            ELSE Rejected(SyntaxError)
       ELSE Resolved(TextBody(resp.text))

\* parseResponseBody
parseResponseBody(resp) ==
  LET contentType == IF Has(resp.headers, "content-type")
                       THEN Lookup(resp.headers, "content-type") ELSE <<>>
  IN IF Includes(contentType, "application/json")
       THEN IF resp.text.wellFormed THEN Resolved(JsonBody(resp.text))
            ELSE Resolved(EmptyObject)
       ELSE Resolved(TextBody(resp.text))

\* the ApiResponse with ok: response.status() >= 200
ApiResponseOkFromLowerBound(resp, responseBody) ==
  [status |-> resp.status, statusText |-> resp.statusText, headers |-> resp.headers,
   body |-> responseBody, ok |-> resp.status >= 200]

\* const apiResponse: ApiResponse = { ... }
ApiResponse(resp, responseBody) ==
  [status |-> resp.status, statusText |-> resp.statusText, headers |-> resp.headers,
   body |-> responseBody, ok |-> ResponseOk(resp)]

(***************************************************************************)
(* The console                                                             *)
(***************************************************************************)
LogEntry(lvl, txt, i, u, st, b, e) ==
  [level |-> lvl, text |-> txt, call |-> i, url |-> u, status |-> st, body |-> b,
   error |-> e]

\* console.log(`[API] ${method} ${url}`)
LogRequest(i, url) == LogEntry("log", "[API] METHOD URL", i, <<url>>, 0, <<>>, <<>>)

\* console.log(`[API] Response Status: ${apiResponse.status}`)
LogStatus(i, status) == LogEntry("log", "[API] Response Status:", i, <<>>, status, <<>>, <<>>)

\* console.log(`[API] Response Body:`, JSON.stringify(apiResponse.body, null, 2))
LogBody(i, body) == LogEntry("log", "[API] Response Body:", i, <<>>, 0, <<body>>, <<>>)

\* console.error(`[API] Request failed:`, error)
LogFailed(i, error) == LogEntry("error", "[API] Request failed:", i, <<>>, 0, <<>>, <<error>>)

(***************************************************************************)
(* makeRequest, one call per element of DOMAIN calls                       *)
(***************************************************************************)
\* a call that has not started
NewCall(client, options) ==
  [pc |-> "idle", client |-> client, options |-> options, request |-> <<>>,
   fetched |-> 0, response |-> <<>>, failure |-> <<>>, returned |-> <<>>,
   thrown |-> <<>>]

\* the response kept in a place the calls share: the one stored by the
\* highest-numbered call that has one
SharedResponse(cs, i) ==
  cs[CHOOSE j \in DOMAIN cs :
       /\ Len(cs[j].response) = 1
       /\ \A k \in DOMAIN cs : Len(cs[k].response) = 1 => k <= j].response[1]

\* const response = await this.request.fetch(...): a local of the call
OwnResponse(cs, i) == cs[i].response[1]

\* the catch block calling fetch once more in place of throwing
CatchBlockRetry(c, error) ==
  [c EXCEPT !.pc = "fetching", !.fetched = c.fetched + 1]

\* the catch block answering an ApiResponse in place of throwing
CatchBlockSwallow(c, error) ==
  [c EXCEPT !.pc = "returned",
            !.returned = <<[status |-> 0, statusText |-> error.message, headers |-> <<>>,
                            body |-> EmptyObject, ok |-> FALSE]>>]

\* catch (error) { console.error(...); throw error; }
CatchBlock(c, error) ==
  [c EXCEPT !.pc = "thrown", !.thrown = <<error>>]

\* lines 46-54: the URL, the headers, the request-start record, the fetch
MakeRequest(i) ==
  /\ calls[i].pc = "idle"
  /\ LET c == calls[i]
         self == clients[c.client]
         url == buildUrl(self, c.options.endpoint, c.options.params, c.options.apiKey)
         request == [url |-> url, method |-> c.options.method,
                     headers |-> RequestHeaders(self, c.options.headers),
                     data |-> RequestData(c.options.method, c.options.data)]
     IN /\ calls' = [calls EXCEPT ![i] =
                       [c EXCEPT !.pc = "fetching", !.request = <<request>>,
                                 !.fetched = c.fetched + 1]]
        /\ log' = Append(log, LogRequest(i, url))
  /\ UNCHANGED <<clients, DEBUG_API, asserted>>
  /\ UNCHANGED validatorVars
  /\ UNCHANGED reporterVars

\* the fetch resolves with one of the responses in served;
\* parseResponseBody starts
FetchResolvesIn(i, served) ==
  /\ calls[i].pc = "fetching"
  /\ \E r \in Responses(calls[i].request[1]) :
       /\ r \in served
       /\ calls' = [calls EXCEPT ![i] = [@ EXCEPT !.pc = "parsing", !.response = <<r>>]]
  /\ UNCHANGED <<clients, log, DEBUG_API, asserted>>
  /\ UNCHANGED validatorVars
  /\ UNCHANGED reporterVars

\* the fetch resolves with a response; parseResponseBody starts
FetchResolves(i) == FetchResolvesIn(i, Responses(calls[i].request[1]))

\* the fetch rejects with one of the errors in raised: the catch block runs
FetchRejectsIn(i, raised) ==
  /\ calls[i].pc = "fetching"
  /\ \E e \in TransportErrors :
       /\ e \in raised
       /\ calls' = [calls EXCEPT ![i] = CatchBlock([@ EXCEPT !.failure = <<e>>], e)]
       /\ log' = Append(log, LogFailed(i, e))
  /\ UNCHANGED <<clients, DEBUG_API, asserted>>
  /\ UNCHANGED validatorVars
  /\ UNCHANGED reporterVars

\* the fetch rejects: the catch block runs
FetchRejects(i) == FetchRejectsIn(i, TransportErrors)

\* lines 60-75: the body is parsed, the ApiResponse built, logged and returned;
\* a rejection of parseResponseBody lands in the catch block
BodyParsed(i) ==
  /\ calls[i].pc = "parsing"
  /\ LET resp == OwnResponse(calls, i)
         parsed == parseResponseBody(resp)
         apiResponse == ApiResponse(resp, parsed.body)
     IN IF parsed.rejected
          THEN /\ calls' = [calls EXCEPT ![i] = CatchBlock(@, parsed.error[1])]
               /\ log' = Append(log, LogFailed(i, parsed.error[1]))
          ELSE /\ calls' = [calls EXCEPT ![i] =
                              [@ EXCEPT !.pc = "returned", !.returned = <<apiResponse>>]]
               /\ log' = log \o <<LogStatus(i, apiResponse.status)>>
                             \o (IF Truthy(DEBUG_API)
                                   THEN <<LogBody(i, apiResponse.body)>> ELSE <<>>)
  /\ UNCHANGED <<clients, DEBUG_API, asserted>>
  /\ UNCHANGED validatorVars
  /\ UNCHANGED reporterVars

\* get(endpoint, params, apiKey)
get(endpoint, params, apiKey) ==
  [method |-> "GET", endpoint |-> endpoint, headers |-> <<>>, data |-> NoObject,
   params |-> params, apiKey |-> apiKey]

\* post(endpoint, data, apiKey)
post(endpoint, data, apiKey) ==
  [method |-> "POST", endpoint |-> endpoint, headers |-> <<>>, data |-> data,
   params |-> NoObject, apiKey |-> apiKey]

\* delete(endpoint, data, apiKey)
delete(endpoint, data, apiKey) ==
  [method |-> "DELETE", endpoint |-> endpoint, headers |-> <<>>, data |-> data,
   params |-> NoObject, apiKey |-> apiKey]

(***************************************************************************)
(* One call of makeRequest on drawn options                                *)
(***************************************************************************)
Methods == {"GET", "POST", "DELETE"}

HeaderOverrides ==
  {<<>>,
   <<Entry("Accept", "text/plain")>>,
   <<Entry("x-api-key", "OTHER-KEY"), Entry("X-Trace", "1")>>}

DataObjects ==
  {NoObject, Object(<<Entry("image_id", JsString("abc")), Entry("value", JsNumber(1))>>)}

ParamValues == {JsNumber(5), JsNumber(0), JsString("RAND"), Undefined, JsNull}

ParamObjects ==
  {NoObject, Object(<<>>),
   Object(<<Entry("limit", JsNumber(5)), Entry("page", Undefined),
            Entry("order", JsString("RAND"))>>)}
    \cup {Object(<<Entry("limit", v)>>) : v \in ParamValues}
    \cup {Object(<<Entry("limit", v), Entry("order", w)>>) :
            v \in ParamValues, w \in {JsString("RAND"), JsNull}}
    \cup {Object(<<Entry("order", w), Entry("limit", v)>>) :
            v \in ParamValues, w \in {JsString("RAND"), Undefined}}

PerCallKeys == {Undefined, JsString("invalid_key_12345")}

ConstructorKeys == {Undefined, JsString("live_key")}

RequestOptions ==
  {[method |-> m, endpoint |-> "/images/search", headers |-> h, data |-> d,
    params |-> p, apiKey |-> k] :
     m \in Methods, h \in HeaderOverrides, d \in DataObjects, p \in ParamObjects,
     k \in PerCallKeys}

\* the validator is not called
ValidatorUnused ==
  /\ response = Null
  /\ schema = Node("object", <<>>, <<>>, <<>>)
  /\ result = NoResult
  /\ pc = "unused"
  /\ validations = <<>>

InitClient ==
  /\ ValidatorUnused
  /\ ReporterUnused
  /\ clients \in [{1} -> {APIClient(k) : k \in ConstructorKeys}]
  /\ calls \in [{1} -> {NewCall(1, o) : o \in RequestOptions}]
  /\ log = <<>>
  /\ DEBUG_API \in {Undefined, JsString("true"), JsString("false")}
  /\ asserted = <<>>

NextClient ==
  \E i \in DOMAIN calls :
    \/ MakeRequest(i)
    \/ FetchResolves(i)
    \/ FetchRejects(i)
    \/ BodyParsed(i)

SpecClient == InitClient /\ [][NextClient]_vars

(***************************************************************************)
(* Vocabulary of the client properties                                     *)
(***************************************************************************)
\* the parameters that are neither null nor undefined, in insertion order
Surviving(params) ==
  IF params.defined
    THEN SelectSeq(params.entries,
                   LAMBDA e : e.value # Undefined /\ e.value # JsNull)
    ELSE <<>>

\* the text of a surviving parameter value
TextOf(value) ==
  CASE value = JsNumber(5) -> "5"
    [] value = JsNumber(0) -> "0"
    [] OTHER -> value.s

\* key=value for every surviving parameter
ExpectedSearch(params) ==
  [k \in 1..Len(Surviving(params)) |->
     Entry(Surviving(params)[k].key, TextOf(Surviving(params)[k].value))]

\* the calls whose request has been handed to the transport
Sent == {i \in DOMAIN calls : Len(calls[i].request) = 1}

\* the content-type of the response names JSON
IndicatesJson(resp) ==
  \E k \in DOMAIN resp.headers :
    /\ resp.headers[k].key = "content-type"
    /\ \E j \in DOMAIN resp.headers[k].value : resp.headers[k].value[j] = "application/json"

(***************************************************************************)
(* C11: every ApiResponse returned by makeRequest has                      *)
(* ok = (200 <= status < 300).                                             *)
(***************************************************************************)
C11_OkIsStatus2xx ==
  \A i \in DOMAIN calls :
    calls[i].pc = "returned" =>
      /\ Len(calls[i].returned) = 1
      /\ calls[i].returned[1].status = calls[i].response[1].status
      /\ calls[i].returned[1].ok =
           (200 <= calls[i].returned[1].status /\ calls[i].returned[1].status < 300)

\* a 404 came back as ok = false, and a 299 as ok = true
C11_Witness ==
  \E i \in DOMAIN calls :
    /\ calls[i].pc = "returned"
    /\ calls[i].returned[1].status = 404
    /\ calls[i].returned[1].ok = FALSE

(***************************************************************************)
(* C13 as stated: the query string holds exactly the parameters that are   *)
(* neither null nor undefined, stringified, in insertion order, and a      *)
(* request with no such parameter has a URL without "?".                   *)
(***************************************************************************)
C13_QueryIsSurvivingParams ==
  \A i \in Sent :
    /\ calls[i].request[1].url.search = ExpectedSearch(calls[i].options.params)
    /\ Len(Surviving(calls[i].options.params)) = 0 =>
         ~calls[i].request[1].url.questionMark

(***************************************************************************)
(* C13 amended: the query string holds api_key=<key> first when the call   *)
(* is given an apiKey, then exactly the parameters that are neither null   *)
(* nor undefined, stringified, in insertion order; the URL has no "?"      *)
(* exactly when the call has neither an apiKey nor such a parameter.       *)
(***************************************************************************)
C13_QueryIsKeyThenSurvivingParams ==
  \A i \in Sent :
    \A key \in {IF calls[i].options.apiKey = Undefined THEN <<>>
                ELSE <<Entry("api_key", calls[i].options.apiKey.s)>>} :
      /\ calls[i].request[1].url.search = key \o ExpectedSearch(calls[i].options.params)
      /\ calls[i].request[1].url.questionMark <=>
           Len(key) + Len(Surviving(calls[i].options.params)) > 0

\* { limit: 5, page: undefined, order: 'RAND' } gave limit=5&order=RAND
C13_Witness ==
  \E i \in Sent :
    /\ calls[i].options.params =
         Object(<<Entry("limit", JsNumber(5)), Entry("page", Undefined),
                  Entry("order", JsString("RAND"))>>)
    /\ calls[i].request[1].url.search = <<Entry("limit", "5"), Entry("order", "RAND")>>
    /\ calls[i].request[1].url.questionMark

(***************************************************************************)
(* C14: the headers sent are the default headers (the configured headers   *)
(* and x-api-key) merged with the per-call headers, the per-call value     *)
(* winning for a key present in both.                                      *)
(***************************************************************************)
C14_HeadersMerged ==
  \A i \in Sent :
    LET sent == calls[i].request[1].headers
        defaults == clients[calls[i].client].defaultHeaders
        overrides == calls[i].options.headers
        HasKey(h, k) == \E j \in DOMAIN h : h[j].key = k
        ValuesAt(h, k) == {h[j].value : j \in {j \in DOMAIN h : h[j].key = k}}
    IN /\ HasKey(defaults, "Content-Type") /\ HasKey(defaults, "Accept")
       /\ ValuesAt(defaults, "x-api-key") = {clients[calls[i].client].apiKey}
       /\ \A j \in DOMAIN defaults :
            ValuesAt(sent, defaults[j].key) =
              IF HasKey(overrides, defaults[j].key)
                THEN ValuesAt(overrides, defaults[j].key)
                ELSE {defaults[j].value}
       /\ \A j \in DOMAIN overrides : ValuesAt(sent, overrides[j].key) = {overrides[j].value}
       /\ \A j \in DOMAIN sent : HasKey(defaults, sent[j].key) \/ HasKey(overrides, sent[j].key)

\* a per-call x-api-key replaced the default one, Accept kept its default
C14_Witness ==
  \E i \in Sent :
    /\ \E j \in DOMAIN calls[i].options.headers :
         calls[i].options.headers[j] = Entry("x-api-key", "OTHER-KEY")
    /\ \E j \in DOMAIN calls[i].request[1].headers :
         calls[i].request[1].headers[j] = Entry("x-api-key", "OTHER-KEY")
    /\ \E j \in DOMAIN calls[i].request[1].headers :
         calls[i].request[1].headers[j] = Entry("Accept", "application/json")

(***************************************************************************)
(* C15: a GET request is sent without a body even when the options hold    *)
(* data; a POST or DELETE request given data is sent with its JSON text.   *)
(***************************************************************************)
C15_BodyOnlyForBodyMethods ==
  \A i \in Sent :
    /\ calls[i].options.method = "GET" => ~calls[i].request[1].data.present
    /\ (calls[i].options.method \in {"POST", "DELETE"} /\ calls[i].options.data.defined) =>
         /\ calls[i].request[1].data.present
         /\ calls[i].request[1].data.text =
              <<"{", "\"image_id\"", ":", "\"abc\"", ",", "\"value\"", ":", "1", "}">>

(***************************************************************************)
(* C16: whatever the status, a response whose content-type names JSON      *)
(* comes back with the parsed JSON as body, or with an empty object when   *)
(* the text does not parse, makeRequest returning all the same; any other  *)
(* response comes back with the raw text.                                  *)
(***************************************************************************)
C16_BodyParsing ==
  \A i \in DOMAIN calls :
    (Len(calls[i].response) = 1 /\ calls[i].pc # "parsing") =>
      /\ calls[i].pc = "returned"
      /\ Len(calls[i].returned) = 1
      /\ calls[i].returned[1].body =
           IF IndicatesJson(calls[i].response[1])
             THEN IF calls[i].response[1].text.wellFormed
                    THEN [kind |-> "json", value |-> calls[i].response[1].text.content]
                    ELSE [kind |-> "json", value |-> "{}"]
             ELSE [kind |-> "text", value |-> calls[i].response[1].text.content]

\* a 500 with a JSON content-type and a text that does not parse gave { }
C16_Witness ==
  \E i \in DOMAIN calls :
    /\ calls[i].pc = "returned"
    /\ calls[i].response[1].status = 500
    /\ IndicatesJson(calls[i].response[1])
    /\ ~calls[i].response[1].text.wellFormed
    /\ calls[i].returned[1].body = [kind |-> "json", value |-> "{}"]

Passed == [passed |-> TRUE, failedExpect |-> 0]

Failed(k) == [passed |-> FALSE, failedExpect |-> k]

\* assertSuccess made of expect(response.ok).toBe(true) alone
assertSuccessOkOnly(resp) ==
  IF resp.ok # TRUE THEN Failed(1) ELSE Passed

\* assertSuccess(response)
assertSuccess(resp) ==
  IF resp.ok # TRUE THEN Failed(1)
  ELSE IF ~(resp.status >= 200) THEN Failed(2)
  ELSE IF ~(resp.status < 300) THEN Failed(3)
  ELSE Passed

\* the ApiResponse records makeRequest returns
ReturnedResponses ==
  {ApiResponse(r, parseResponseBody(r).body) :
     r \in Responses([url |-> [baseUrl |-> <<API_CONFIG.baseURL, "/images/search">>]])}

\* the bodies a test puts in a record it builds itself
CallerBodies ==
  {[kind |-> "json", value |-> v] : v \in {"breed", "[]", "{}"}}
    \cup {[kind |-> "text", value |-> v] : v \in {"", "<html>", "breed"}}

\* the records a test builds itself, as TC-203 does
\* ({ status: 200, statusText: 'OK', ok: true, headers: {}, body: breed })
CallerResponses ==
  {[status |-> st, statusText |-> "OK", headers |-> <<>>, body |-> b, ok |-> o] :
     st \in Statuses \cup {199, 201, 400}, b \in CallerBodies, o \in BOOLEAN}

InitAssert ==
  /\ ValidatorUnused
  /\ ReporterUnused
  /\ clients = <<>>
  /\ calls = <<>>
  /\ log = <<>>
  /\ DEBUG_API = Undefined
  /\ asserted = <<>>

\* ApiAssertions.assertSuccess(response)
AssertSuccess ==
  /\ asserted = <<>>
  /\ \E r \in ReturnedResponses \cup CallerResponses :
       /\ asserted' = <<[assertion |-> "assertSuccess", response |-> r,
                         outcome |-> assertSuccess(r)]>>
       /\ log' = IF assertSuccess(r).passed
                   THEN Append(log, LogEntry("log", "Response is successful", 0,
                                             <<>>, r.status, <<>>, <<>>))
                   ELSE log
  /\ UNCHANGED <<clients, calls, DEBUG_API>>
  /\ UNCHANGED validatorVars
  /\ UNCHANGED reporterVars

\* assertErrorResponse(response, expectedStatus)
assertErrorResponse(resp, expectedStatus) ==
  IF resp.ok # FALSE THEN Failed(1)
  ELSE IF Truthy(expectedStatus) /\ resp.status # expectedStatus.n THEN Failed(2)
  ELSE Passed

\* the expectedStatus arguments: left out, an error status, zero
ExpectedStatuses == {Undefined, JsNumber(404), JsNumber(500), JsNumber(0)}

\* ApiAssertions.assertErrorResponse(response, expectedStatus)
AssertErrorResponse ==
  /\ asserted = <<>>
  /\ \E r \in ReturnedResponses \cup CallerResponses, e \in ExpectedStatuses :
       /\ asserted' = <<[assertion |-> "assertErrorResponse", response |-> r,
                         expectedStatus |-> e, outcome |-> assertErrorResponse(r, e)]>>
       /\ log' = IF assertErrorResponse(r, e).passed
                   THEN Append(log, LogEntry("log", "Got expected error response", 0,
                                             <<>>, r.status, <<>>, <<>>))
                   ELSE log
  /\ UNCHANGED <<clients, calls, DEBUG_API>>
  /\ UNCHANGED validatorVars
  /\ UNCHANGED reporterVars

\* the longest array body and the largest length argument drawn
MaxLength == 3

\* the bodies given to assertArrayLength: arrays of objects, an object, a
\* string, null
LengthBodies ==
  {Arr([i \in 1..n |-> Obj(<<>>)]) : n \in 0..MaxLength} \cup {Obj(<<>>), Str, Null}

ArrayOperators == {"equals", "greaterThan", "lessThan"}

\* assertArrayLength(response, length, operator)
assertArrayLength(resp, length, operator) ==
  IF ArrayIsArray(resp.body) # TRUE THEN Failed(1)
  ELSE IF operator = "equals"
         THEN IF Len(resp.body.elems) = length THEN Passed ELSE Failed(2)
  ELSE IF operator = "greaterThan"
         THEN IF Len(resp.body.elems) >= length THEN Passed ELSE Failed(2)
  ELSE IF operator = "lessThan"
         THEN IF Len(resp.body.elems) <= length THEN Passed ELSE Failed(2)
  ELSE Passed

\* ApiAssertions.assertArrayLength(response, length, operator) on the
\* response of a list request
AssertArrayLength ==
  /\ asserted = <<>>
  /\ \E b \in LengthBodies, n \in 0..MaxLength, op \in ArrayOperators :
       LET r == [status |-> 200, statusText |-> "OK", headers |-> <<>>, body |-> b, ok |-> TRUE]
       IN  /\ asserted' = <<[assertion |-> "assertArrayLength", response |-> r,
                             length |-> n, operator |-> op,
                             outcome |-> assertArrayLength(r, n, op)]>>
           /\ log' = IF assertArrayLength(r, n, op).passed
                       THEN Append(log, LogEntry("log", "Array length:", 0, <<>>,
                                                 Len(b.elems), <<>>, <<>>))
                       ELSE log
  /\ UNCHANGED <<clients, calls, DEBUG_API>>
  /\ UNCHANGED validatorVars
  /\ UNCHANGED reporterVars

NextAssert ==
  \/ AssertSuccess
  \/ AssertErrorResponse
  \/ AssertArrayLength

SpecAssert == InitAssert /\ [][NextAssert]_vars

(***************************************************************************)
(* C12 as stated: for every ApiResponse record, built by makeRequest or by *)
(* the caller, assertSuccess passes exactly when response.ok is true.      *)
(***************************************************************************)
C12_SuccessIsOk ==
  \A k \in DOMAIN asserted :
    asserted[k].assertion = "assertSuccess" =>
      (asserted[k].outcome.passed <=> asserted[k].response.ok)

(***************************************************************************)
(* C12 amended: for every ApiResponse record, assertSuccess passes exactly *)
(* when response.ok is true and 200 <= response.status < 300; on a record  *)
(* returned by makeRequest that is exactly when ok is true.                *)
(***************************************************************************)
C12_SuccessIsOkAnd2xx ==
  \A k \in DOMAIN asserted :
    asserted[k].assertion = "assertSuccess" =>
      /\ asserted[k].outcome.passed <=>
           (/\ asserted[k].response.ok
            /\ 200 <= asserted[k].response.status
            /\ asserted[k].response.status < 300)
      /\ asserted[k].response \in ReturnedResponses =>
           (asserted[k].outcome.passed <=> asserted[k].response.ok)

\* a record built with ok: true and status 404 was refused
C12_Witness ==
  \E k \in DOMAIN asserted :
    /\ asserted[k].assertion = "assertSuccess"
    /\ asserted[k].response.ok
    /\ asserted[k].response.status = 404
    /\ ~asserted[k].outcome.passed

(***************************************************************************)
(* Concurrent requests, as in TC-510: NumCalls calls of get issued         *)
(* together from two clients and awaited with Promise.all; their steps     *)
(* interleave at every await.                                              *)
(***************************************************************************)
NumCalls == 3

\* ENDPOINTS, one per call
EndpointOf(i) ==
  <<"/images/search", "/breeds", "/categories", "/favourites", "/votes">>[((i - 1) % 5) + 1]

\* apiClient1, apiClient2, apiClient1, ...
ClientOf(i) == IF i % 2 = 1 THEN 1 ELSE 2

InitConcurrent ==
  /\ ValidatorUnused
  /\ ReporterUnused
  /\ clients = [c \in {1, 2} |-> APIClient(Undefined)]
  /\ calls = [i \in 1..NumCalls |->
                NewCall(ClientOf(i),
                        get(EndpointOf(i), Object(<<Entry("limit", JsNumber(i))>>), Undefined))]
  /\ log = <<>>
  /\ DEBUG_API = Undefined
  /\ asserted = <<>>

\* the server answers a request with JSON, found or not found
ServedConcurrently(r) ==
  /\ r.status \in {200, 404}
  /\ Has(r.headers, "content-type")
  /\ Includes(Lookup(r.headers, "content-type"), "application/json")
  /\ r.text.wellFormed

NextConcurrent ==
  \E i \in DOMAIN calls :
    \/ MakeRequest(i)
    \/ FetchResolvesIn(i, {r \in Responses(calls[i].request[1]) : ServedConcurrently(r)})
    \/ FetchRejectsIn(i, {e \in TransportErrors : e.name = "TimeoutError"})
    \/ BodyParsed(i)

SpecConcurrent == InitConcurrent /\ [][NextConcurrent]_vars

(***************************************************************************)
(* C19: under every interleaving, the ApiResponse a call returns is the    *)
(* normalized response to its own request: its status, body and ok are     *)
(* those of the response the transport gave to that call, the body being   *)
(* the document of the endpoint the call asked for; the client instances   *)
(* keep the state they were constructed with.                              *)
(***************************************************************************)
C19_OwnResponse ==
  /\ \A i \in DOMAIN calls :
       calls[i].pc = "returned" =>
         /\ calls[i].returned[1].status = calls[i].response[1].status
         /\ calls[i].returned[1].ok = (calls[i].response[1].status \in 200..299)
         /\ calls[i].returned[1].body =
              [kind |-> "json", value |-> calls[i].options.endpoint]
         /\ calls[i].request[1].url.baseUrl[2] = calls[i].options.endpoint
  /\ \A c \in DOMAIN clients :
       /\ clients[c].apiKey = "DEMO-API-KEY"
       /\ clients[c].baseURL = "https://api.thecatapi.com/v1"

\* all calls returned, with different statuses, the third one's response
\* having been logged before the first one's
C19_Witness ==
  /\ \A i \in DOMAIN calls : calls[i].pc = "returned"
  /\ calls[1].returned[1].status = 404
  /\ calls[2].returned[1].status = 200
  /\ \E j, k \in DOMAIN log :
       /\ j < k
       /\ log[j].text = "[API] Response Status:" /\ log[j].call = 3
       /\ log[k].text = "[API] Response Status:" /\ log[k].call = 1

(***************************************************************************)
(* SlackReporter: test counts and the notifications of a run.  Clock       *)
(* values (testStartTime, duration, the ts and Timestamp of a message) are *)
(* left out of the state.                                                  *)
(***************************************************************************)

\* the longest run explored
MaxTests == 3

\* process.env.SLACK_WEBHOOK_URL || ''
WebhookUrls == {"", "https://hooks.slack.com/services/T0/B0/x"}

\* test.title of the test cases of a run
TestTitles == {"TC-201", "TC-501"}

\* result.status of a TestResult
ResultStatuses == {"passed", "failed", "skipped", "timedOut", "interrupted"}

TestStats(p, f, s, t, r) ==
  [passed |-> p, failed |-> f, skipped |-> s, total |-> t, passRate |-> r]

\* the fields of a new SlackReporter
SlackReporter(url) ==
  [slackWebhookUrl |-> url, testStats |-> TestStats(0, 0, 0, 0, 0), failedTests |-> <<>>]

\* the console line of the constructor
LogConstructed(url) ==
  IF url = ""
    THEN LogEntry("warn", "SLACK_WEBHOOK_URL not set. Slack notifications will not be posted.",
                  0, <<>>, 0, <<>>, <<>>)
    ELSE LogEntry("log", "Slack webhook configured:", 0, <<url>>, 0, <<>>, <<>>)

\* recordFailedTest putting the newest failure first
recordFailedTestFirst(self, test) ==
  [self EXCEPT !.failedTests = <<[name |-> test.title]>> \o @]

\* recordFailedTest(test, result)
recordFailedTest(self, test) ==
  [self EXCEPT !.failedTests = Append(@, [name |-> test.title])]

\* onTestEnd counting every result that did not pass and was not skipped
\* as a failure
onTestEndOthersFail(self, test, res) ==
  LET counted ==
        IF res.status = "passed"
          THEN [self EXCEPT !.testStats.passed = @ + 1]
          ELSE IF res.status = "skipped"
                 THEN [self EXCEPT !.testStats.skipped = @ + 1]
                 ELSE recordFailedTest([self EXCEPT !.testStats.failed = @ + 1], test)
  IN  [counted EXCEPT !.testStats.total = @ + 1]

\* the body of onTestEnd(test, result)
onTestEnd(self, test, res) ==
  LET counted ==
        IF res.status = "passed"
          THEN [self EXCEPT !.testStats.passed = @ + 1]
          ELSE IF res.status = "failed"
                 THEN recordFailedTest([self EXCEPT !.testStats.failed = @ + 1], test)
                 ELSE IF res.status = "skipped"
                        THEN [self EXCEPT !.testStats.skipped = @ + 1]
                        ELSE self
  IN  [counted EXCEPT !.testStats.total = @ + 1]

\* the ratios n / d, d up to 201, for which 100 n / d ends in one half while
\* the double (n / d) * 100 falls just under it: (23 / 40) * 100 is
\* 57.49999999999999
DoubleUnderHalf ==
  {<<23, 40>>, <<46, 80>>, <<69, 120>>, <<92, 160>>,
   <<29, 200>>, <<57, 200>>, <<113, 200>>, <<115, 200>>}

\* Math.round((n / d) * 100), 0 < d <= 201: the nearest integer, halves
\* upwards, of the double
MathRoundPercent(n, d) ==
  IF <<n, d>> \in DoubleUnderHalf
    THEN (200 * n + d) \div (2 * d) - 1
    ELSE (200 * n + d) \div (2 * d)

\* the pass rate onEnd stores
PassRate(stats) ==
  IF stats.total > 0 THEN MathRoundPercent(stats.passed, stats.total) ELSE 0

getColorForPassRate(passRate) ==
  IF passRate = 100 THEN "#36a64f"
  ELSE IF passRate >= 80 THEN "#ffc107"
  ELSE IF passRate >= 50 THEN "#ff9800"
  ELSE "#f44336"

\* statusEmoji of the summary, by the name of the emoji
statusEmoji(passRate) ==
  IF passRate = 100 THEN "white_check_mark"
  ELSE IF passRate >= 80 THEN "warning"
  ELSE "x"

SlackField(t, v) == [title |-> t, value |-> v]

\* a SlackMessage with its one attachment
SlackMessage(icon, c, t, fs, txt) ==
  [icon_emoji |-> icon, color |-> c, title |-> t, fields |-> fs, text |-> txt]

\* the message sendTestStartNotification builds
StartMessage ==
  SlackMessage(":rocket:", "#0099ff", "The Cat API automation Test Run Started",
               <<SlackField("Worker Threads", "1"), SlackField("Projects", "Default")>>, <<>>)

buildTestSummaryMessage(self) ==
  LET stats == self.testStats
  IN  SlackMessage(":robot_face:", getColorForPassRate(stats.passRate),
                   statusEmoji(stats.passRate) \o " Test Results Summary",
                   <<SlackField("Total Tests", ToString(stats.total)),
                     SlackField("Passed", ToString(stats.passed)),
                     SlackField("Failed", ToString(stats.failed)),
                     SlackField("Skipped", ToString(stats.skipped)),
                     SlackField("Pass Rate", ToString(stats.passRate) \o "%")>>,
                   <<>>)

\* buildFailedTestsMessage without the early return
buildFailedTestsMessageAlways(self) ==
  <<SlackMessage(":robot_face:", "#f44336",
                 "Failed Tests (" \o ToString(Len(self.failedTests)) \o ")",
                 <<>>,
                 <<[index |-> 0, name |-> ""]>>
                   \o [i \in DOMAIN self.failedTests |->
                         [index |-> i, name |-> self.failedTests[i].name]])>>

\* buildFailedTestsMessage(): no message (null) without failed tests
buildFailedTestsMessage(self) ==
  IF Len(self.failedTests) = 0
    THEN <<>>
    ELSE <<SlackMessage(":robot_face:", "#f44336",
                        "Failed Tests (" \o ToString(Len(self.failedTests)) \o ")",
                        <<>>,
                        [i \in DOMAIN self.failedTests |->
                           [index |-> i, name |-> self.failedTests[i].name]])>>

\* what the webhook call of sendToSlack ends with: fetchFn resolves with a
\* response, or getFetch / fetchFn rejects
WebhookResponse(st, txt) == [ok |-> ResponseOk([status |-> st]), status |-> st, statusText |-> txt]

WebhookAnswers ==
  {[response |-> <<r>>, error |-> <<>>] :
     r \in {WebhookResponse(200, "OK"), WebhookResponse(404, "Not Found"),
            WebhookResponse(500, "Internal Server Error")}}
  \cup
  {[response |-> <<>>, error |-> <<e>>] :
     e \in {[name |-> "TypeError", message |-> "fetch failed", cause |-> <<>>]}}

\* new Error(`Slack API error: ${response.statusText}`)
SlackApiError(resp) ==
  [name |-> "Error", message |-> "Slack API error: " \o resp.statusText, cause |-> <<>>]

\* a post of sendToSlack: the message, whether the call has ended, and the
\* error sendToSlack rejected with
Pending == [settled |-> FALSE, error |-> <<>>]

Settled(err) == [settled |-> TRUE, error |-> err]

Post(msg) == [message |-> msg, outcome |-> Pending]

\* sendToSlack(message) once the webhook call has ended with the answer:
\* the console lines it writes and the error it rejects with, if any
sendToSlack(answer) ==
  IF answer.error # <<>>
    THEN [logged |-> <<>>, rejected |-> answer.error]
    ELSE IF ~answer.response[1].ok
           THEN [logged |->
                   <<LogEntry("error", "Response status:", 0, <<>>,
                              answer.response[1].status, <<>>, <<>>),
                     LogEntry("error", "Response body:", 0, <<>>, 0, <<>>, <<>>)>>,
                 rejected |-> <<SlackApiError(answer.response[1])>>]
           ELSE [logged |-> <<>>, rejected |-> <<>>]

\* console.log('Test results posted to Slack')
LogSent == LogEntry("log", "Test results posted to Slack", 0, <<>>, 0, <<>>, <<>>)

\* the .catch of sendTestStartNotification: what it logs and where the
\* error goes on to
sendTestStartNotificationCatch(error) ==
  [logged |-> <<LogEntry("error", "Failed to send test start notification:",
                         0, <<>>, 0, <<>>, <<error>>)>>,
   escapes |-> {}]

sendSlackNotificationNoCatch(error) ==
  [logged |-> <<>>, escapes |-> {"onEnd"}]

\* the catch block of sendSlackNotification
sendSlackNotificationCatch(error) ==
  [logged |-> <<LogEntry("error", "Failed to send Slack notification:",
                         0, <<>>, 0, <<>>, <<error>>)>>,
   escapes |-> {}]

NothingCaught == [logged |-> <<>>, escapes |-> {}]

IsStart(p) == p.message.icon_emoji = ":rocket:"

IsSummary(p) == p.message.icon_emoji = ":robot_face:" /\ p.message.fields # <<>>

IsFailedTests(p) == p.message.icon_emoji = ":robot_face:" /\ p.message.text # <<>>

ReporterClientUnused ==
  /\ clients = <<>>
  /\ calls = <<>>
  /\ DEBUG_API = Undefined
  /\ asserted = <<>>

\* a reporter right after its constructor
InitReporter ==
  /\ ValidatorUnused
  /\ ReporterClientUnused
  /\ \E url \in WebhookUrls :
       /\ reporter = SlackReporter(url)
       /\ log = <<LogConstructed(url)>>
  /\ rpc = [phase |-> "created", events |-> <<>>]
  /\ webhook = <<>>
  /\ escaped = {}

\* onBegin(config, suite); the start notification is not awaited
OnBegin ==
  /\ rpc.phase = "created"
  /\ rpc' = [rpc EXCEPT !.phase = "running"]
  /\ webhook' = IF reporter.slackWebhookUrl # ""
                  THEN Append(webhook, Post(StartMessage))
                  ELSE webhook
  /\ UNCHANGED <<reporter, escaped, log>>
  /\ UNCHANGED <<clients, calls, DEBUG_API, asserted>>
  /\ UNCHANGED validatorVars

\* onTestEnd(test, result) for one of the titles and statuses, in a run of
\* at most limit results
OnTestEndWithin(limit, titles, statuses) ==
  /\ rpc.phase = "running"
  /\ Len(rpc.events) < limit
  /\ \E t \in titles, s \in statuses :
       /\ reporter' = onTestEnd(reporter, [title |-> t], [status |-> s])
       /\ rpc' = [rpc EXCEPT !.events = Append(@, [title |-> t, status |-> s])]
  /\ UNCHANGED <<webhook, escaped, log>>
  /\ UNCHANGED <<clients, calls, DEBUG_API, asserted>>
  /\ UNCHANGED validatorVars

\* onEnd(result) up to the first webhook call of sendSlackNotification
OnEnd ==
  /\ rpc.phase = "running"
  /\ reporter' = [reporter EXCEPT !.testStats.passRate = PassRate(reporter.testStats)]
  /\ IF reporter.slackWebhookUrl # ""
       THEN /\ webhook' = Append(webhook, Post(buildTestSummaryMessage(reporter')))
            /\ rpc' = [rpc EXCEPT !.phase = "onEnd"]
       ELSE /\ webhook' = webhook
            /\ rpc' = [rpc EXCEPT !.phase = "ended"]
  /\ UNCHANGED <<escaped, log>>
  /\ UNCHANGED <<clients, calls, DEBUG_API, asserted>>
  /\ UNCHANGED validatorVars

\* the webhook call of the start notification ends
StartNotificationSettles ==
  \E k \in DOMAIN webhook, answer \in WebhookAnswers :
    /\ IsStart(webhook[k])
    /\ webhook[k].outcome = Pending
    /\ LET posted == sendToSlack(answer)
           caught == IF posted.rejected # <<>>
                       THEN sendTestStartNotificationCatch(posted.rejected[1])
                       ELSE NothingCaught
       IN  /\ webhook' = [webhook EXCEPT ![k].outcome = Settled(posted.rejected)]
           /\ log' = log \o posted.logged \o caught.logged
           /\ escaped' = escaped \cup caught.escapes
    /\ UNCHANGED <<reporter, rpc>>
    /\ UNCHANGED <<clients, calls, DEBUG_API, asserted>>
    /\ UNCHANGED validatorVars

\* the webhook call of the summary ends; sendSlackNotification goes on to
\* the failed-tests message or to its end, and onEnd with it
SummarySettles ==
  \E k \in DOMAIN webhook, answer \in WebhookAnswers :
    /\ IsSummary(webhook[k])
    /\ webhook[k].outcome = Pending
    /\ LET posted == sendToSlack(answer)
           failedMessage == buildFailedTestsMessage(reporter)
           settled == [webhook EXCEPT ![k].outcome = Settled(posted.rejected)]
       IN  IF posted.rejected # <<>>
             THEN LET caught == sendSlackNotificationCatch(posted.rejected[1])
                  IN  /\ webhook' = settled
                      /\ log' = log \o posted.logged \o caught.logged
                      /\ escaped' = escaped \cup caught.escapes
                      /\ rpc' = [rpc EXCEPT !.phase = "ended"]
             ELSE IF failedMessage # <<>>
                    THEN /\ webhook' = Append(settled, Post(failedMessage[1]))
                         /\ UNCHANGED <<log, escaped, rpc>>
                    ELSE /\ webhook' = settled
                         /\ log' = Append(log, LogSent)
                         /\ rpc' = [rpc EXCEPT !.phase = "ended"]
                         /\ UNCHANGED escaped
    /\ UNCHANGED reporter
    /\ UNCHANGED <<clients, calls, DEBUG_API, asserted>>
    /\ UNCHANGED validatorVars

\* the webhook call of the failed-tests message ends, and onEnd with it
FailedTestsSettles ==
  \E k \in DOMAIN webhook, answer \in WebhookAnswers :
    /\ IsFailedTests(webhook[k])
    /\ webhook[k].outcome = Pending
    /\ LET posted == sendToSlack(answer)
           caught == IF posted.rejected # <<>>
                       THEN sendSlackNotificationCatch(posted.rejected[1])
                       ELSE NothingCaught
       IN  /\ webhook' = [webhook EXCEPT ![k].outcome = Settled(posted.rejected)]
           /\ log' = IF posted.rejected # <<>>
                       THEN log \o posted.logged \o caught.logged
                       ELSE Append(log, LogSent)
           /\ escaped' = escaped \cup caught.escapes
    /\ rpc' = [rpc EXCEPT !.phase = "ended"]
    /\ UNCHANGED reporter
    /\ UNCHANGED <<clients, calls, DEBUG_API, asserted>>
    /\ UNCHANGED validatorVars

\* onTestEnd(test, result)
OnTestEnd == OnTestEndWithin(MaxTests, TestTitles, ResultStatuses)

NextReporter ==
  \/ OnBegin
  \/ OnTestEnd
  \/ OnEnd
  \/ StartNotificationSettles
  \/ SummarySettles
  \/ FailedTestsSettles

SpecReporter == InitReporter /\ [][NextReporter]_vars

\* a post whose webhook call ended in this step with an error
FailsNow(k) ==
  /\ k \in DOMAIN webhook
  /\ webhook[k].outcome = Pending
  /\ webhook'[k].outcome.error # <<>>

\* C20: when a webhook call ends with a thrown error or a non-ok answer, for
\* the start, the summary or the failed-tests message, the error is written
\* to the console as the last line, it escapes from neither onBegin nor
\* onEnd nor as an unhandled rejection, and the reporter's counts and list
\* of failed tests stay as they were.
C20_DeliveryFailureCaught ==
  [][\A k \in DOMAIN webhook :
       FailsNow(k) =>
         /\ escaped' = {}
         /\ reporter' = reporter
         /\ Len(log') > Len(log)
         /\ log'[Len(log')].level = "error"
         /\ log'[Len(log')].error = webhook'[k].outcome.error]_vars

\* the run is over, the start notification was thrown back by fetch, the
\* summary was delivered and the failed-tests message was refused by Slack,
\* with one failed test among three
C20_Witness ==
  /\ rpc.phase = "ended"
  /\ reporter.testStats.total = 3
  /\ reporter.testStats.failed = 1
  /\ escaped = {}
  /\ \E i, j, k \in DOMAIN webhook :
       /\ IsStart(webhook[i]) /\ webhook[i].outcome.error # <<>>
       /\ webhook[i].outcome.error[1].name = "TypeError"
       /\ IsSummary(webhook[j]) /\ webhook[j].outcome = Settled(<<>>)
       /\ IsFailedTests(webhook[k]) /\ webhook[k].outcome.error # <<>>
       /\ webhook[k].outcome.error[1].message = "Slack API error: Not Found"
  /\ \E m \in DOMAIN log : log[m].text = "Failed to send Slack notification:"

(***************************************************************************)
(* Repeated validation against a shared schema tree                        *)
(***************************************************************************)

\* the longest series of calls explored
MaxValidations == 3

\* CategorySchema, and BreedSchema with the members the drawn values carry
CategorySchema ==
  Node("object", <<"id", "name">>,
       <<Prop("id", Node("integer", <<>>, <<>>, <<>>)),
         Prop("name", Node("string", <<>>, <<>>, <<>>))>>, <<>>)

BreedSchema ==
  Node("object", <<"id", "name">>,
       <<Prop("id", Node("string", <<>>, <<>>, <<>>)),
         Prop("name", Node("string", <<>>, <<>>, <<>>))>>, <<>>)

SharedSchemas == {CategorySchema, BreedSchema}

\* response bodies handed to the validator: a category, a breed, bodies with
\* a wrong or missing member, and bodies that are no object
RepeatedValues ==
  {Obj(<<Field("id", Num(2)), Field("name", Str)>>),
   Obj(<<Field("id", Str), Field("name", Str)>>),
   Obj(<<Field("id", Num(3))>>),
   Obj(<<Field("id", Str), Field("name", Num(2))>>),
   Arr(<<>>), Str, Null}

schemaAfterValidationShifted(resp, sch) ==
  [sch EXCEPT !.required = IF Len(@) > 0 THEN Tail(@) ELSE @]

\* the schema object after validateAgainstSchema(response, schema): the
\* function and validateProperty only read schema.type, schema.required and
\* schema.properties
schemaAfterValidation(resp, sch) == sch

InitRepeated ==
  /\ schema \in SharedSchemas
  /\ response = Null
  /\ result = NoResult
  /\ pc = "call"
  /\ validations = <<>>
  /\ ClientUnused
  /\ ReporterUnused

\* one more call of validateAgainstSchema on the shared schema
ValidateShared ==
  /\ pc = "call"
  /\ Len(validations) < MaxValidations
  /\ \E v \in RepeatedValues :
       /\ response' = v
       /\ result' = validateAgainstSchema(v, schema)
       /\ schema' = schemaAfterValidation(v, schema)
       /\ validations' = Append(validations, [response |-> v, schema |-> schema, result |-> result'])
  /\ UNCHANGED pc
  /\ UNCHANGED clientVars
  /\ UNCHANGED reporterVars

NextRepeated == ValidateShared

SpecRepeated == InitRepeated /\ [][NextRepeated]_vars

C24_ErrorsNameField ==
  (ObjectCase /\ result.outcome = "return") =>
    \A j \in DOMAIN result.errors :
      \/ \E k \in DOMAIN schema.required : result.errors[j].field = schema.required[k]
      \/ \E k \in DOMAIN schema.properties : result.errors[j].field = schema.properties[k].key

(***************************************************************************)
(* C23: the response body is written to the console only when DEBUG_API    *)
(* is switched on (DEBUG_API=true); otherwise, unset or DEBUG_API=false,   *)
(* a call that returned has left the request line and then the status line *)
(* and no line holding the body.                                           *)
(***************************************************************************)
DebugEnabled == DEBUG_API = JsString("true")

C23_BodyLoggedOnlyWhenEnabled ==
  \A i \in DOMAIN calls :
    (calls[i].pc = "returned" /\ ~DebugEnabled) =>
      /\ Len(log) = 2
      /\ log[1] = LogRequest(i, calls[i].request[1].url)
      /\ log[2] = LogStatus(i, calls[i].returned[1].status)
      /\ \A j \in DOMAIN log : log[j].body = <<>>

(***************************************************************************)
(* C25: assertErrorResponse(response, expectedStatus) passes exactly when  *)
(* response.ok is false and, an expectedStatus argument being given,       *)
(* response.status equals it; a response of makeRequest with status 404    *)
(* passes assertErrorResponse(response, 404).                              *)
(***************************************************************************)
C25_ErrorResponseIff ==
  \A k \in DOMAIN asserted :
    asserted[k].assertion = "assertErrorResponse" =>
      /\ asserted[k].outcome.passed <=>
           (/\ asserted[k].response.ok = FALSE
            /\ asserted[k].expectedStatus # Undefined =>
                 asserted[k].response.status = asserted[k].expectedStatus.n)
      /\ (/\ asserted[k].response \in ReturnedResponses
          /\ asserted[k].response.status = 404
          /\ asserted[k].expectedStatus = JsNumber(404)) => asserted[k].outcome.passed

(***************************************************************************)
(* C30: assertArrayLength passes exactly when the body is an array whose   *)
(* length is equal to the number under 'equals', strictly greater under    *)
(* 'greaterThan', strictly less under 'lessThan'; a body that is no array  *)
(* fails under every operator.                                             *)
(***************************************************************************)
C30_ComparesAsNamed ==
  \A k \in DOMAIN asserted :
    asserted[k].assertion = "assertArrayLength" =>
      LET body == asserted[k].response.body
          n == asserted[k].length
      IN  asserted[k].outcome.passed <=>
            /\ body.kind = "array"
            /\ CASE asserted[k].operator = "equals" -> Len(body.elems) = n
                 [] asserted[k].operator = "greaterThan" -> Len(body.elems) > n
                 [] asserted[k].operator = "lessThan" -> Len(body.elems) < n

(***************************************************************************)
(* Vocabulary of the reporter properties                                   *)
(***************************************************************************)
\* the results received so far that have the status
EventsWith(status) == SelectSeq(rpc.events, LAMBDA e : e.status = status)

CountedStatuses == {"passed", "failed", "skipped"}

\* the posts of the end of the run, in the order they were made
EndOfRunPosts == SelectSeq(webhook, LAMBDA p : ~IsStart(p))

(***************************************************************************)
(* C26: after any sequence of onTestEnd events the list of failing tests   *)
(* is as long as the failed counter says and holds the titles of the       *)
(* results with status 'failed', and only those, in the order of arrival.  *)
(***************************************************************************)
C26_FailedTestsListed ==
  rpc.phase # "created" =>
    /\ Len(reporter.failedTests) = reporter.testStats.failed
    /\ reporter.failedTests =
         [i \in DOMAIN EventsWith("failed") |-> [name |-> EventsWith("failed")[i].title]]

\* two tests with different titles failed, a run that timed out in between
C26_Witness ==
  /\ Len(rpc.events) = 3
  /\ rpc.events[1] = [title |-> "TC-501", status |-> "failed"]
  /\ rpc.events[2].status = "timedOut"
  /\ rpc.events[3] = [title |-> "TC-201", status |-> "failed"]
  /\ reporter.failedTests = <<[name |-> "TC-501"], [name |-> "TC-201"]>>

(***************************************************************************)
(* C27: after any sequence of onTestEnd events total is the number of      *)
(* events, and passed, failed and skipped are the numbers of events with   *)
(* that status, each event counting for at most one of them; so their sum  *)
(* is at most total, and equal to it exactly when every result was passed, *)
(* failed or skipped.  A timedOut or interrupted result is in no list of   *)
(* failures.                                                               *)
(***************************************************************************)
C27_CountersMatchEvents ==
  rpc.phase # "created" =>
    LET stats == reporter.testStats
        counted == stats.passed + stats.failed + stats.skipped
    IN  /\ stats.total = Len(rpc.events)
        /\ stats.passed = Len(EventsWith("passed"))
        /\ stats.failed = Len(EventsWith("failed"))
        /\ stats.skipped = Len(EventsWith("skipped"))
        /\ counted <= stats.total
        /\ counted = stats.total <=>
             \A i \in DOMAIN rpc.events : rpc.events[i].status \in CountedStatuses
        /\ Len(reporter.failedTests) = Len(EventsWith("failed"))

\* a passed, a timed out and an interrupted result: total 3, one counted
C27_Witness ==
  /\ Len(rpc.events) = 3
  /\ \E i, j, k \in DOMAIN rpc.events :
       /\ rpc.events[i].status = "passed"
       /\ rpc.events[j].status = "timedOut"
       /\ rpc.events[k].status = "interrupted"
  /\ reporter.testStats.total = 3
  /\ reporter.testStats.passed = 1
  /\ reporter.testStats.failed = 0
  /\ reporter.failedTests = <<>>

(***************************************************************************)
(* C29: without a webhook no message is ever sent.  With one, the end of   *)
(* the run sends the summary first; the failed-tests message is sent only  *)
(* after the summary call has ended without error and only when a test     *)
(* failed; when the run is over without a failed test exactly one          *)
(* end-of-run message has been sent.                                       *)
(***************************************************************************)
C29_EndOfRunMessages ==
  /\ reporter.slackWebhookUrl = "" => webhook = <<>>
  /\ Len(EndOfRunPosts) <= 2
  /\ rpc.phase \in {"created", "running"} => EndOfRunPosts = <<>>
  /\ (rpc.phase \in {"onEnd", "ended"} /\ reporter.slackWebhookUrl # "") =>
       /\ Len(EndOfRunPosts) >= 1
       /\ IsSummary(EndOfRunPosts[1])
       /\ EndOfRunPosts[1].message = buildTestSummaryMessage(reporter)
  /\ Len(EndOfRunPosts) = 2 =>
       /\ IsFailedTests(EndOfRunPosts[2])
       /\ EndOfRunPosts[1].outcome = Settled(<<>>)
       /\ reporter.testStats.failed >= 1
  /\ (rpc.phase = "ended" /\ reporter.slackWebhookUrl # "" /\ reporter.testStats.failed = 0) =>
       Len(EndOfRunPosts) = 1

\* a run with a failed test whose summary was delivered and whose
\* failed-tests message is on its way
C29_Witness ==
  /\ rpc.phase = "onEnd"
  /\ reporter.testStats.failed = 1
  /\ Len(EndOfRunPosts) = 2
  /\ EndOfRunPosts[1].outcome = Settled(<<>>)
  /\ EndOfRunPosts[2].outcome = Pending
  /\ EndOfRunPosts[2].message.text = <<[index |-> 1, name |-> "TC-201"]>>

(***************************************************************************)
(* A long run: up to MaxRunTests results, all passed but possibly the       *)
(* first one, then onEnd and its notifications                             *)
(***************************************************************************)

\* the longest run whose end is explored
MaxRunTests == 200

\* onTestEnd(test, result) in a run where every test passes but, possibly,
\* the first one
LongRunTestEnd ==
  OnTestEndWithin(MaxRunTests, {"TC-201"},
                  IF Len(rpc.events) = 0 THEN {"passed", "failed"} ELSE {"passed"})

NextLongRun ==
  \/ OnBegin
  \/ LongRunTestEnd
  \/ OnEnd
  \/ StartNotificationSettles
  \/ SummarySettles
  \/ FailedTestsSettles

SpecLongRun == InitReporter /\ [][NextLongRun]_vars

(***************************************************************************)
(* C28: once onEnd has computed it, the pass rate is an integer from 0 to  *)
(* 100, it is 0 when no test ran, and it is 100, the summary then being    *)
(* green with the success emoji, only if every recorded test passed.       *)
(***************************************************************************)
C28_FullRateMeansAllPassed ==
  rpc.phase \in {"onEnd", "ended"} =>
    LET stats == reporter.testStats
    IN  /\ stats.passRate \in 0..100
        /\ stats.total = 0 => stats.passRate = 0
        /\ stats.passRate = 100 => stats.passed = stats.total
        /\ \A k \in DOMAIN webhook :
             (IsSummary(webhook[k]) /\ webhook[k].message.color = "#36a64f")
               => stats.passed = stats.total
====
